---- MODULE Spec2Model ----
(***************************************************************************)
(* Request handling of the budgets backend: AuthController (register,      *)
(* login) and BudgetsController (create, findAll, findOne, update, remove, *)
(* getBalance).  A request goes through the route's guards, then the       *)
(* parameter pipes, then the handler, which calls one service method and   *)
(* returns (or throws) what the service returned (or threw).               *)
(***************************************************************************)
EXTENDS Integers, Sequences, FiniteSets, TLC

VARIABLES
    pc,        \* pc[r]: position of request r in the pipeline
    req,       \* req[r]: the request as sent by the client
    user,      \* user[r]: req.user, attached by the guard
    calls,     \* calls[r]: the service calls made on behalf of r, in order
    outcome,   \* outcome[r]: how r's service call settled
    response   \* response[r]: the HTTP response sent for r

vars == <<pc, req, user, calls, outcome, response>>

\* Number of requests in flight at once in the concurrent specification.
MaxReqs == 2

-----------------------------------------------------------------------------
(* Values *)

Undefined == [undefined |-> TRUE]

AuthRoutes == {"register", "login"}
BudgetRoutes == {"create", "findAll", "findOne", "update", "remove", "getBalance"}
Routes == AuthRoutes \cup BudgetRoutes

\* Routes declared with a ':id' path parameter.
IdRoutes == {"findOne", "update", "remove", "getBalance"}
\* Routes whose handler binds @Body().
BodyRoutes == {"register", "create", "update"}

Tokens == {"missing", "forged", "tokA", "tokB"}
Credentials == {"credA", "credB", "wrong"}
Ids == {"b2c6e182-6aef-4c38-8d26-9153d7ebc7d2",
        "0f8fad5b-d9cb-469f-a165-70867728950e",
        "42"}
WellFormedIds == {"b2c6e182-6aef-4c38-8d26-9153d7ebc7d2",
                  "0f8fad5b-d9cb-469f-a165-70867728950e"}

\* Register bodies (CreateUserDto: name, email, password).
UserBodies ==
    { [name |-> "Jane Smith", email |-> "janesmith@example.com", password |-> "pw1"],
      [name |-> "Joe Doe", email |-> "joe@example.com", password |-> "pw2"],
      [name |-> "", email |-> "janesmith@example.com", password |-> "pw1"],
      [name |-> "Jane Smith", email |-> "janesmith", password |-> "pw1"] }
WellFormedEmails == {"janesmith@example.com", "joe@example.com"}

\* Budget bodies (CreateBudgetDto / UpdateBudgetDto).  user_id is an owner
\* the client tries to name in the body; an empty name fails validation.
BudgetBodies ==
    { [name |-> "rent", user_id |-> "ua"],
      [name |-> "food", user_id |-> "ub"],
      [name |-> "", user_id |-> "ua"] }

\* Query strings of GET /budgets (FilterBudgetDto: category, month, status),
\* with an owner the client tries to name in the query.
Queries ==
    { [status |-> "active", user_id |-> "ua"],
      [status |-> "pending", user_id |-> "ub"],
      [status |-> "bogus", user_id |-> "ub"] }
Statuses == {"pending", "active", "completed"}

NoBody == [absent |-> "body"]
NoQuery == [absent |-> "query"]

\* The requests a client can send to each route.
RouteInputs(route) ==
    [ route : {route},
      token : IF route \in BudgetRoutes THEN Tokens ELSE {"missing"},
      creds : IF route = "login" THEN Credentials ELSE {"none"},
      id    : IF route \in IdRoutes THEN Ids ELSE {"none"},
      body  : IF route = "register" THEN UserBodies
              ELSE IF route \in BodyRoutes THEN BudgetBodies ELSE {NoBody},
      query : IF route = "findAll" THEN Queries ELSE {NoQuery} ]

Inputs == UNION { RouteInputs(route) : route \in Routes }

NoReq == [route |-> "none", token |-> "missing", creds |-> "none", id |-> "none",
          body |-> NoBody, query |-> NoQuery]
NoOutcome == [kind |-> "none", status |-> 0, value |-> Undefined]
NoResponse == [status |-> 0, body |-> Undefined]

-----------------------------------------------------------------------------
(* Collaborators that the controllers treat as opaque *)

\* JwtAuthGuard: the payload of a token it accepts, Undefined when it rejects.
JwtVerify(token) ==
    IF token = "tokA" THEN [sub |-> "ua"]
    ELSE IF token = "tokB" THEN [sub |-> "ub"]
    ELSE Undefined

\* LocalAuthGuard: the user whose email/password match, Undefined otherwise.
LocalValidate(creds) ==
    IF creds = "credA" THEN [id |-> "ua", email |-> "janesmith@example.com"]
    ELSE IF creds = "credB" THEN [id |-> "ub", email |-> "joe@example.com"]
    ELSE Undefined

\* DTO validation of a bound body or query string.
ValidDto(route, rq) ==
    CASE route = "register" ->
            rq.body.name # "" /\ rq.body.email \in WellFormedEmails
      [] route \in {"create", "update"} -> rq.body.name # ""
      [] route = "findAll" -> rq.query.status \in Statuses
      [] OTHER -> TRUE

Returned(v) == [kind |-> "returned", status |-> 0, value |-> v]
Thrown(st, name) == [kind |-> "thrown", status |-> st, value |-> [error |-> name]]

\* What a service method can do with a call: the value it returns or the
\* exception it throws.
ServiceOutcomes(call) ==
    CASE call.method = "registerUser" ->
            { Returned([accessToken |-> "JWT_TOKEN",
                        user |-> [name |-> call.args[1].name,
                                  email |-> call.args[1].email]]),
              Thrown(500, "InternalServerError") }
      [] call.method = "generateJwtToken" ->
            { Returned([accessToken |-> "JWT_TOKEN", user |-> call.args[1]]) }
      [] call.method = "create" ->
            { Returned([budget |-> call]), Thrown(500, "InternalServerError") }
      [] call.method = "findAll" ->
            { Returned([budgets |-> call]) }
      [] call.method = "findOne" ->
            { Returned([budget |-> call]), Thrown(404, "NotFound") }
      [] call.method = "update" ->
            { Returned([budget |-> call]), Thrown(404, "NotFound"),
              Thrown(500, "InternalServerError") }
      [] call.method = "remove" ->
            { Returned([message |-> "Budget deleted successfully"]),
              Thrown(500, "InternalServerError: no such budget"),
              Thrown(500, "InternalServerError: not deleted") }
      [] call.method = "getBalance" ->
            { Returned([balance |-> call]), Thrown(404, "NotFound"),
              Thrown(500, "InternalServerError") }
      [] OTHER -> {}

-----------------------------------------------------------------------------
(* The controllers *)

\* RouteGuard, were the budgets controller declared without its guard.
RouteGuardBudgetsOpen(route) ==
    IF route = "login" THEN "LocalAuthGuard" ELSE "none"

\* RouteGuard, were login declared without its guard.
RouteGuardLoginOpen(route) ==
    IF route \in BudgetRoutes THEN "JwtAuthGuard" ELSE "none"

\* The guard a route is declared with.
RouteGuard(route) ==
    IF route \in BudgetRoutes THEN "JwtAuthGuard"
    ELSE IF route = "login" THEN "LocalAuthGuard"
    ELSE "none"

\* The user a guard attaches to the request, Undefined when it rejects.
GuardResult(guard, rq) ==
    IF guard = "JwtAuthGuard" THEN JwtVerify(rq.token)
    ELSE LocalValidate(rq.creds)

\* IdPipe, were remove's id bound by a plain @Param('id').
IdPipeNotOnRemove(route) == route \in IdRoutes \ {"remove"}

\* Whether the route's id parameter is bound through ParseUUIDPipe.
IdPipe(route) == route \in IdRoutes

\* ParseUUIDPipe's test.
IsUUID(id) == id \in WellFormedIds

\* Whether every parameter of the handler binds.
ParamsBind(route, rq) ==
    /\ IdPipe(route) => IsUUID(rq.id)
    /\ ValidDto(route, rq)

\* The HTTP method a route is declared with.
HttpMethod(route) ==
    CASE route \in {"register", "login", "create"} -> "POST"
      [] route \in {"findAll", "findOne", "getBalance"} -> "GET"
      [] route = "update" -> "PATCH"
      [] route = "remove" -> "DELETE"

\* SuccessStatus, were every handler declared with @HttpCode(200).
SuccessStatusAlwaysOk(route) == 200

\* Status of a response to a handler that returns: no handler sets one, so
\* it is the default of the route's HTTP method.
SuccessStatus(route) == IF HttpMethod(route) = "POST" THEN 201 ELSE 200

\* The success status the route's annotation documents.
DocumentedStatus(route) == IF route \in AuthRoutes THEN 201 ELSE 200

\* ServiceMethod, were getBalance's handler to call findOne.
ServiceMethodBalanceAsFindOne(route) ==
    CASE route = "register" -> "registerUser"
      [] route = "login" -> "generateJwtToken"
      [] route = "getBalance" -> "findOne"
      [] OTHER -> route

\* The service method a handler calls.
ServiceMethod(route) ==
    CASE route = "register" -> "registerUser"
      [] route = "login" -> "generateJwtToken"
      [] OTHER -> route

\* OwnerArg, were the owner read from what the client sent.
OwnerArgFromClient(r) ==
    IF req[r].route \in {"create", "update"} THEN req[r].body.user_id
    ELSE IF req[r].route = "findAll" THEN req[r].query.user_id
    ELSE req[r].id

\* OwnerArg, were the user kept in a field of the controller, which the
\* requests in flight share.
OwnerArgFromSharedField(r) ==
    LET holder == CHOOSE q \in DOMAIN user :
                      /\ user[q] # Undefined
                      /\ \A p \in DOMAIN user : user[p] # Undefined => q <= p
    IN user[holder].sub

\* The owner identifier a budget handler passes: const user = req.user; user.sub
OwnerArg(r) == user[r].sub

\* The argument list of the handler's service call.
ServiceArgs(r) ==
    LET rq == req[r] IN
    CASE rq.route = "register" -> <<rq.body>>
      [] rq.route = "login" -> <<user[r]>>
      [] rq.route = "create" -> <<OwnerArg(r), rq.body>>
      [] rq.route = "findAll" -> <<OwnerArg(r), rq.query>>
      [] rq.route = "update" -> <<rq.id, OwnerArg(r), rq.body>>
      [] OTHER -> <<rq.id, OwnerArg(r)>>

\* Reading user.sub of an undefined req.user throws a TypeError before the
\* service is called.
HandlerThrows(r) == req[r].route \in BudgetRoutes /\ user[r] = Undefined

\* HandlerOutcome, were the service call wrapped in a catch that returns null.
HandlerOutcomeSwallow(route, o) ==
    IF o.kind = "thrown" THEN [kind |-> "returned", status |-> 0, value |-> Undefined]
    ELSE o

\* HandlerOutcome, were remove's errors rethrown as not found.
HandlerOutcomeRemoveNotFound(route, o) ==
    IF route = "remove" /\ o.kind = "thrown"
    THEN [kind |-> "thrown", status |-> 404, value |-> [error |-> "NotFound"]]
    ELSE o

\* return await service.method(...): the handler settles as the service did.
HandlerOutcome(route, o) == o

\* The response to a settled handler: a returned value with the route's
\* success status, an HTTP exception with its own status, any other error
\* as 500.
ResponseFor(route, o) ==
    IF o.kind = "returned" THEN [status |-> SuccessStatus(route), body |-> o.value]
    ELSE [status |-> IF o.status = 0 THEN 500 ELSE o.status, body |-> o.value]

-----------------------------------------------------------------------------
(* Request handling *)

Reqs == DOMAIN pc

Idle(R) ==
    /\ pc = [r \in R |-> "idle"]
    /\ req = [r \in R |-> NoReq]
    /\ user = [r \in R |-> Undefined]
    /\ calls = [r \in R |-> <<>>]
    /\ outcome = [r \in R |-> NoOutcome]
    /\ response = [r \in R |-> NoResponse]

\* A client sends a request.
Receive(r, rq) ==
    /\ pc[r] = "idle"
    /\ pc' = [pc EXCEPT ![r] = "received"]
    /\ req' = [req EXCEPT ![r] = rq]
    /\ UNCHANGED <<user, calls, outcome, response>>

\* The route's guard runs first; a rejection is answered 401.
RunGuard(r) ==
    /\ pc[r] = "received"
    /\ LET guard == RouteGuard(req[r].route)
           u == GuardResult(guard, req[r])
       IN IF guard = "none"
          THEN /\ pc' = [pc EXCEPT ![r] = "authorized"]
               /\ UNCHANGED <<user, response>>
          ELSE IF u = Undefined
          THEN /\ pc' = [pc EXCEPT ![r] = "done"]
               /\ response' = [response EXCEPT ![r] =
                      ResponseFor(req[r].route, Thrown(401, "Unauthorized"))]
               /\ UNCHANGED user
          ELSE /\ pc' = [pc EXCEPT ![r] = "authorized"]
               /\ user' = [user EXCEPT ![r] = u]
               /\ UNCHANGED response
    /\ UNCHANGED <<req, calls, outcome>>

\* The pipes bind the handler's parameters; a failure is answered 400.
RunPipes(r) ==
    /\ pc[r] = "authorized"
    /\ IF ParamsBind(req[r].route, req[r])
       THEN /\ pc' = [pc EXCEPT ![r] = "bound"]
            /\ UNCHANGED response
       ELSE /\ pc' = [pc EXCEPT ![r] = "done"]
            /\ response' = [response EXCEPT ![r] =
                   ResponseFor(req[r].route, Thrown(400, "BadRequest"))]
    /\ UNCHANGED <<req, user, calls, outcome>>

\* The handler runs up to its service call.
InvokeHandler(r) ==
    /\ pc[r] = "bound"
    /\ IF HandlerThrows(r)
       THEN /\ pc' = [pc EXCEPT ![r] = "done"]
            /\ response' = [response EXCEPT ![r] =
                   ResponseFor(req[r].route, Thrown(0, "TypeError"))]
            /\ UNCHANGED calls
       ELSE /\ pc' = [pc EXCEPT ![r] = "awaiting"]
            /\ calls' = [calls EXCEPT ![r] = Append(@,
                   [method |-> ServiceMethod(req[r].route), args |-> ServiceArgs(r)])]
            /\ UNCHANGED response
    /\ UNCHANGED <<req, user, outcome>>

\* The service call settles, the handler settles with it and the response
\* is sent.
ServiceSettles(r) ==
    /\ pc[r] = "awaiting"
    /\ \E o \in ServiceOutcomes(calls[r][Len(calls[r])]) :
          /\ outcome' = [outcome EXCEPT ![r] = o]
          /\ response' = [response EXCEPT ![r] =
                 ResponseFor(req[r].route, HandlerOutcome(req[r].route, o))]
    /\ pc' = [pc EXCEPT ![r] = "done"]
    /\ UNCHANGED <<req, user, calls>>

\* The exchange is over; nothing of it is kept.
Close(r) ==
    /\ pc[r] = "done"
    /\ pc' = [pc EXCEPT ![r] = "idle"]
    /\ req' = [req EXCEPT ![r] = NoReq]
    /\ user' = [user EXCEPT ![r] = Undefined]
    /\ calls' = [calls EXCEPT ![r] = <<>>]
    /\ outcome' = [outcome EXCEPT ![r] = NoOutcome]
    /\ response' = [response EXCEPT ![r] = NoResponse]

\* One request at a time, any request a client can send.
Init == Idle({1})
Next ==
    \/ \E r \in Reqs, rq \in Inputs : Receive(r, rq)
    \/ \E r \in Reqs : RunGuard(r)
    \/ \E r \in Reqs : RunPipes(r)
    \/ \E r \in Reqs : InvokeHandler(r)
    \/ \E r \in Reqs : ServiceSettles(r)
    \/ \E r \in Reqs : Close(r)
Spec == Init /\ [][Next]_vars

\* Requests of two users in flight together on the budget routes.
ConcInputs ==
    { rq \in UNION { RouteInputs(route) : route \in BudgetRoutes } :
        \/ /\ rq.token = "tokA"
           /\ rq.id \in {"none", "b2c6e182-6aef-4c38-8d26-9153d7ebc7d2"}
           /\ rq.body \in {NoBody, [name |-> "rent", user_id |-> "ua"]}
           /\ rq.query \in {NoQuery, [status |-> "active", user_id |-> "ua"]}
        \/ /\ rq.token = "tokB"
           /\ rq.id \in {"none", "0f8fad5b-d9cb-469f-a165-70867728950e"}
           /\ rq.body \in {NoBody, [name |-> "food", user_id |-> "ub"]}
           /\ rq.query \in {NoQuery, [status |-> "pending", user_id |-> "ub"]} }

InitConc == Idle(1..MaxReqs)
NextConc ==
    \/ \E r \in Reqs, rq \in ConcInputs : Receive(r, rq)
    \/ \E r \in Reqs : RunGuard(r)
    \/ \E r \in Reqs : RunPipes(r)
    \/ \E r \in Reqs : InvokeHandler(r)
    \/ \E r \in Reqs : ServiceSettles(r)
    \/ \E r \in Reqs : Close(r)
SpecConc == InitConc /\ [][NextConc]_vars

-----------------------------------------------------------------------------
(* Properties *)

Route(r) == req[r].route
Made(r) == calls[r] # <<>>
Finished(r) == pc[r] = "done"
LastCall(r) == calls[r][Len(calls[r])]

\* The request passed its route's guard and its parameters bind.
Accepted(r) ==
    /\ Route(r) \in Routes
    /\ Route(r) \in BudgetRoutes => JwtVerify(req[r].token) # Undefined
    /\ Route(r) = "login" => LocalValidate(req[r].creds) # Undefined
    /\ Route(r) \in IdRoutes => req[r].id \in WellFormedIds
    /\ ValidDto(Route(r), req[r])

\* The owner identifier among the arguments of a budgets service call.
OwnerOf(call) ==
    IF call.method \in {"create", "findAll"} THEN call.args[1] ELSE call.args[2]

\* C1: on the six budget routes a request whose token is missing or rejected
\* by JwtAuthGuard is answered 401 and makes no BudgetsService call; a call
\* is made only for a request the guard has accepted.
C1_GuardBeforeService ==
    \A r \in Reqs : Route(r) \in BudgetRoutes =>
        /\ JwtVerify(req[r].token) = Undefined =>
              /\ ~Made(r)
              /\ Finished(r) => response[r].status = 401
        /\ Made(r) =>
              /\ JwtVerify(req[r].token) # Undefined
              /\ user[r] = JwtVerify(req[r].token)

C1_Witness ==
    \E r \in Reqs :
        /\ Route(r) = "remove"
        /\ req[r].token = "forged"
        /\ Finished(r)
        /\ response[r].status = 401
        /\ ~Made(r)

\* C2: in every BudgetsService call the owner argument is the sub of the
\* payload the guard attached to that request, whatever the body, the query
\* string and the path say.
C2_OwnerIsTokenSub ==
    \A r \in Reqs : (Route(r) \in BudgetRoutes /\ Made(r)) =>
        \A i \in 1..Len(calls[r]) :
            /\ OwnerOf(calls[r][i]) = user[r].sub
            /\ OwnerOf(calls[r][i]) = JwtVerify(req[r].token).sub

C2_Witness ==
    \E r \in Reqs :
        /\ Route(r) = "create"
        /\ Made(r)
        /\ req[r].token = "tokA"
        /\ req[r].body.user_id = "ub"
        /\ OwnerOf(calls[r][1]) = "ua"

\* C3: login calls generateJwtToken only after LocalAuthGuard accepted the
\* credentials, with exactly the user the guard attached; with invalid
\* credentials the answer is 401 and no token is generated.
C3_LoginAfterLocalGuard ==
    \A r \in Reqs : Route(r) = "login" =>
        /\ Made(r) =>
              /\ LocalValidate(req[r].creds) # Undefined
              /\ calls[r] = << [method |-> "generateJwtToken",
                                args |-> <<LocalValidate(req[r].creds)>>] >>
              /\ user[r] = LocalValidate(req[r].creds)
        /\ LocalValidate(req[r].creds) = Undefined =>
              /\ ~Made(r)
              /\ Finished(r) => response[r].status = 401

C3_Witness ==
    \E r \in Reqs :
        /\ Route(r) = "login"
        /\ req[r].creds = "credB"
        /\ Finished(r)
        /\ Made(r)
        /\ response[r].body.user = LocalValidate("credB")

\* C4: register needs no token; a body that passes validation leads to
\* exactly one registerUser call with that body and, when that call returns,
\* to a 201 response carrying its result; a body that fails validation is
\* answered 400 without a registerUser call.
C4_Register ==
    \A r \in Reqs : Route(r) = "register" =>
        /\ Made(r) => calls[r] = << [method |-> "registerUser",
                                      args |-> <<req[r].body>>] >>
        /\ (ValidDto("register", req[r]) /\ Finished(r)) =>
              /\ Len(calls[r]) = 1
              /\ outcome[r].kind = "returned" =>
                    response[r] = [status |-> 201, body |-> outcome[r].value]
              /\ outcome[r].kind = "thrown" =>
                    response[r] = [status |-> outcome[r].status,
                                   body |-> outcome[r].value]
        /\ ~ValidDto("register", req[r]) =>
              /\ ~Made(r)
              /\ Finished(r) => response[r].status = 400

C4_Witness ==
    \E r \in Reqs :
        /\ Route(r) = "register"
        /\ req[r].token = "missing"
        /\ Finished(r)
        /\ Len(calls[r]) = 1
        /\ response[r].status = 201
        /\ response[r].body.user.email = req[r].body.email

\* C5: on GET :id, PATCH :id and GET :id/balance the not-found error of the
\* service reaches the client as 404, unchanged, never as a success.
C5_NotFoundPropagates ==
    \A r \in Reqs :
        ( /\ Route(r) \in {"findOne", "update", "getBalance"}
          /\ Finished(r)
          /\ outcome[r].kind = "thrown"
          /\ outcome[r].status = 404 ) =>
            response[r] = [status |-> 404, body |-> outcome[r].value]

C5_Witness ==
    \E r \in Reqs :
        /\ Route(r) = "getBalance"
        /\ Finished(r)
        /\ outcome[r].kind = "thrown"
        /\ outcome[r].status = 404
        /\ response[r].status = 404

C7_DocumentedStatus ==
    \A r \in Reqs : (Finished(r) /\ outcome[r].kind = "returned") =>
        response[r].status = DocumentedStatus(Route(r))

\* C8: on the four :id routes the service is called only with a well-formed
\* UUID; an authenticated request with a malformed id is rejected by the
\* pipe without a service call, an unauthenticated one is answered 401.
C8_UuidBeforeService ==
    \A r \in Reqs : Route(r) \in IdRoutes =>
        /\ Made(r) => IsUUID(LastCall(r).args[1])
        /\ ~IsUUID(req[r].id) =>
              /\ ~Made(r)
              /\ Finished(r) =>
                    response[r].status =
                        IF JwtVerify(req[r].token) = Undefined THEN 401 ELSE 400

C8_Witness ==
    \E r \in Reqs :
        /\ Route(r) = "remove"
        /\ req[r].id = "42"
        /\ req[r].token = "tokA"
        /\ Finished(r)
        /\ response[r].status = 400
        /\ ~Made(r)

C8_WitnessUnauthenticated ==
    \E r \in Reqs :
        /\ Route(r) = "findOne"
        /\ req[r].id = "42"
        /\ req[r].token = "missing"
        /\ Finished(r)
        /\ response[r].status = 401

\* C9: an accepted request makes exactly one service call, to the method of
\* its route, with the request's own id, body and query, and the handler
\* settles exactly as the service did.
C9_Delegation ==
    \A r \in Reqs :
        /\ Len(calls[r]) <= 1
        /\ Made(r) => Accepted(r)
        /\ Made(r) =>
              /\ Len(calls[r]) = 1
              /\ LastCall(r).method =
                    ( CASE Route(r) = "register" -> "registerUser"
                        [] Route(r) = "login" -> "generateJwtToken"
                        [] Route(r) = "create" -> "create"
                        [] Route(r) = "findAll" -> "findAll"
                        [] Route(r) = "findOne" -> "findOne"
                        [] Route(r) = "update" -> "update"
                        [] Route(r) = "remove" -> "remove"
                        [] Route(r) = "getBalance" -> "getBalance" )
              /\ Route(r) \in IdRoutes => LastCall(r).args[1] = req[r].id
              /\ Route(r) = "register" => LastCall(r).args[1] = req[r].body
              /\ Route(r) = "create" => LastCall(r).args[2] = req[r].body
              /\ Route(r) = "update" => LastCall(r).args[3] = req[r].body
              /\ Route(r) = "findAll" => LastCall(r).args[2] = req[r].query
        /\ (Finished(r) /\ Accepted(r)) =>
              /\ Len(calls[r]) = 1
              /\ outcome[r] \in ServiceOutcomes(calls[r][1])
              /\ outcome[r].kind = "returned" => response[r].body = outcome[r].value
              /\ outcome[r].kind = "thrown" =>
                    response[r] = [status |-> outcome[r].status,
                                   body |-> outcome[r].value]

C9_Witness ==
    \E r \in Reqs :
        /\ Route(r) = "getBalance"
        /\ Finished(r)
        /\ Len(calls[r]) = 1
        /\ outcome[r].kind = "returned"
        /\ response[r].body = outcome[r].value
        /\ response[r].body.balance.method = "getBalance"

\* C10: with requests of different users in flight together, every service
\* call carries the owner, id and body of the request that made it, every
\* response is the result of that request's own call, and a step of one
\* request changes nothing of another.
C10_OwnCall ==
    \A r \in Reqs :
        /\ Made(r) =>
              /\ OwnerOf(LastCall(r)) = JwtVerify(req[r].token).sub
              /\ Route(r) \in IdRoutes => LastCall(r).args[1] = req[r].id
              /\ Route(r) = "create" => LastCall(r).args[2] = req[r].body
              /\ Route(r) = "update" => LastCall(r).args[3] = req[r].body
        /\ (Finished(r) /\ Made(r)) =>
              /\ outcome[r] \in ServiceOutcomes(LastCall(r))
              /\ response[r].body = outcome[r].value

C10_StepIsLocal ==
    \E r \in Reqs : \A q \in Reqs \ {r} :
        /\ pc'[q] = pc[q]
        /\ req'[q] = req[q]
        /\ user'[q] = user[q]
        /\ calls'[q] = calls[q]
        /\ outcome'[q] = outcome[q]
        /\ response'[q] = response[q]

C10_Isolation == []C10_OwnCall /\ [][C10_StepIsLocal]_vars

C10_Witness ==
    \E r, q \in Reqs :
        /\ pc[r] = "awaiting"
        /\ pc[q] = "awaiting"
        /\ r < q
        /\ Route(r) = "update"
        /\ Route(q) = "update"
        /\ OwnerOf(LastCall(r)) = "ub"
        /\ OwnerOf(LastCall(q)) = "ua"
        /\ LastCall(r).args[1] # LastCall(q).args[1]

====
